---- MODULE Spec2Model ----
(***************************************************************************)
(* A model of src/dashboard.py: the DCFValuation engine.                   *)
(*                                                                         *)
(* The engine's state is the object's four fields; every public method is  *)
(* an operator from (self, arguments) to an outcome                        *)
(*     [self, raised, msg, value]                                          *)
(* (the object after the call, the exception raised or "None", the         *)
(* exception's message, the value returned) and one action that applies    *)
(* it.  Python's floats are modelled as exact rationals, so every          *)
(* equality below is an equality of reals; IEEE rounding is not modelled.  *)
(***************************************************************************)
EXTENDS Integers, Sequences, FiniteSets, TLC

VARIABLES
    self,      \* the DCFValuation object: company_name, fcf_base, fcf_growth_years, projections
    ret,       \* the last method call: op, args, raised, msg, value
    hist       \* history: has a project_fcf call succeeded, has one succeeded again,
               \* and what did the last one return

vars == <<self, ret, hist>>

(***************************************************************************)
(* Bounds.                                                                 *)
(***************************************************************************)
MaxYears == 2

(***************************************************************************)
(* Real numbers.  A real is w + n/d with w an integer, 0 <= n < d and      *)
(* n/d in lowest terms, so that a value such as 63699.121872 keeps its     *)
(* parts within the model checker's integers.                              *)
(***************************************************************************)
RECURSIVE GCD(_, _)
GCD(a, b) == IF b = 0 THEN a ELSE GCD(b, a % b)

\* w + r/d with 0 <= r < d, the fraction brought to lowest terms by g = GCD(d, r)
Lowest(w, r, d, g) == [w |-> w, n |-> r \div g, d |-> d \div g]

\* w + n/d for any integer n and d > 0
Norm(w, n, d) == Lowest(w + (n \div d), n % d, d, GCD(d, n % d))

Num(k) == [w |-> k, n |-> 0, d |-> 1]

Frac(p, q) == Norm(0, p, q)

\* x + y over the common denominator L
AddOver(x, y, L) == Norm(x.w + y.w, x.n * (L \div x.d) + y.n * (L \div y.d), L)

Add(x, y) == AddOver(x, y, (x.d \div GCD(x.d, y.d)) * y.d)

Neg(x) == Norm(-x.w, -x.n, x.d)

Sub(x, y) == Add(x, Neg(y))

\* x * y = x.w * y + (x.n/x.d) * y; an integer factor needs the first term only
Mul(x, y) ==
    IF x.n = 0 THEN Norm(x.w * y.w, x.w * y.n, y.d)
    ELSE IF y.n = 0 THEN Norm(x.w * y.w, y.w * x.n, x.d)
    ELSE Add(Norm(x.w * y.w, x.w * y.n, y.d),
             Norm(0, x.n * (y.w * y.d + y.n), x.d * y.d))

IsZero(x) == x.w = 0 /\ x.n = 0

\* d/p, for p # 0
Ratio(d, p) == IF p > 0 THEN Norm(0, d, p) ELSE Norm(0, -d, -p)

\* 1 / x, for x # 0
Recip(x) == Ratio(x.d, x.w * x.d + x.n)

\* x / y, for y # 0
Div(x, y) == Mul(x, Recip(y))

\* x ** k for an integer k >= 0
RECURSIVE Pow(_, _)
Pow(x, k) == IF k = 0 THEN Num(1) ELSE Mul(x, Pow(x, k - 1))

\* sum(seq), Python's left-to-right sum starting from 0
RECURSIVE SumFrom(_, _, _)
SumFrom(acc, seq, i) ==
    IF i > Len(seq) THEN acc ELSE SumFrom(Add(acc, seq[i]), seq, i + 1)

Sum(seq) == SumFrom(Num(0), seq, 1)

(***************************************************************************)
(* Outcomes of a call.                                                     *)
(***************************************************************************)
Return(obj, v) == [self |-> obj, raised |-> "None", msg |-> "", value |-> v]

Raise(obj, type, m) == [self |-> obj, raised |-> type, msg |-> m, value |-> <<>>]

ProvideMsg == "Provide {fcf_growth_years} growth rates"

RunFirstMsg == "Run project_fcf() first"

DivMsg == "division by zero"

(***************************************************************************)
(* DCFValuation.__init__                                                   *)
(***************************************************************************)
DCFValuation(company_name, fcf_base, fcf_growth_years) ==
    [company_name     |-> company_name,
     fcf_base         |-> fcf_base,
     fcf_growth_years |-> fcf_growth_years,
     projections      |-> <<>>]

(***************************************************************************)
(* DCFValuation.project_fcf                                                *)
(***************************************************************************)
\* one entry of self.projections
Projection(year, fcf, growth_rate) == [Year |-> year, FCF |-> fcf, GrowthRate |-> growth_rate]

\* the for loop from `year` on: fcf is the running value, acc the list so far
RECURSIVE project_loop(_, _, _, _, _)
\* the rest of the loop body once fcf = fcf * (1 + growth_rates[year - 1]) is computed
project_append(acc, fcf, growth_rates, year, last) ==
    project_loop(Append(acc, Projection(year, fcf, growth_rates[year])),
                 fcf, growth_rates, year + 1, last)

project_loop(acc, fcf, growth_rates, year, last) ==
    IF year > last
    THEN acc
    ELSE project_append(acc, Mul(fcf, Add(Num(1), growth_rates[year])),
                        growth_rates, year, last)

\* self.projections is now p, which is also what the call returns
project_return(obj, p) == Return([obj EXCEPT !.projections = p], p)

\* mutant: the list is not emptied before the loop
project_fcf_accumulate(obj, growth_rates) ==
    IF Len(growth_rates) # obj.fcf_growth_years
    THEN Raise(obj, "ValueError", ProvideMsg)
    ELSE project_return(obj,
             project_loop(obj.projections, obj.fcf_base, growth_rates, 1,
                          obj.fcf_growth_years))

\* mutant: the list is emptied before the length is checked
project_fcf_reset_first(obj, growth_rates) ==
    IF Len(growth_rates) # obj.fcf_growth_years
    THEN Raise([obj EXCEPT !.projections = <<>>], "ValueError", ProvideMsg)
    ELSE project_return(obj,
             project_loop(<<>>, obj.fcf_base, growth_rates, 1, obj.fcf_growth_years))

\* mutant: every year's rate is applied to fcf_base, not to the year before
project_fcf_flat(obj, growth_rates) ==
    IF Len(growth_rates) # obj.fcf_growth_years
    THEN Raise(obj, "ValueError", ProvideMsg)
    ELSE project_return(obj,
             [y \in 1..obj.fcf_growth_years |->
                 Projection(y, Mul(obj.fcf_base, Add(Num(1), growth_rates[y])),
                            growth_rates[y])])

\* mutant: a projection already stored is returned as it is
project_fcf_cached(obj, growth_rates) ==
    IF Len(growth_rates) # obj.fcf_growth_years
    THEN Raise(obj, "ValueError", ProvideMsg)
    ELSE IF obj.projections # <<>>
    THEN Return(obj, obj.projections)
    ELSE project_return(obj,
             project_loop(<<>>, obj.fcf_base, growth_rates, 1, obj.fcf_growth_years))

project_fcf(obj, growth_rates) ==
    IF Len(growth_rates) # obj.fcf_growth_years
    THEN Raise(obj, "ValueError", ProvideMsg)
    ELSE project_return(obj,
             project_loop(<<>>, obj.fcf_base, growth_rates, 1, obj.fcf_growth_years))

(***************************************************************************)
(* DCFValuation.calculate_terminal_value                                   *)
(***************************************************************************)
\* terminal_fcf / (wacc - terminal_growth_rate)
perpetuity(obj, terminal_fcf, denominator) ==
    IF IsZero(denominator)
    THEN Raise(obj, "ZeroDivisionError", DivMsg)
    ELSE Return(obj, Div(terminal_fcf, denominator))

\* mutant: no check that a projection is stored; projections[-1] of [] is an IndexError
calculate_terminal_value_unguarded(obj, terminal_growth_rate, wacc) ==
    IF obj.projections = <<>>
    THEN Raise(obj, "IndexError", "list index out of range")
    ELSE perpetuity(obj,
             Mul(obj.projections[Len(obj.projections)].FCF,
                 Add(Num(1), terminal_growth_rate)),
             Sub(wacc, terminal_growth_rate))

\* mutant: the final year's FCF is not grown by the terminal rate
calculate_terminal_value_ungrown(obj, terminal_growth_rate, wacc) ==
    IF obj.projections = <<>>
    THEN Raise(obj, "ValueError", RunFirstMsg)
    ELSE perpetuity(obj, obj.projections[Len(obj.projections)].FCF,
                    Sub(wacc, terminal_growth_rate))

calculate_terminal_value(obj, terminal_growth_rate, wacc) ==
    IF obj.projections = <<>>
    THEN Raise(obj, "ValueError", RunFirstMsg)
    ELSE perpetuity(obj,
             Mul(obj.projections[Len(obj.projections)].FCF,
                 Add(Num(1), terminal_growth_rate)),
             Sub(wacc, terminal_growth_rate))

(***************************************************************************)
(* DCFValuation.calculate_pv                                               *)
(***************************************************************************)
\* fcf / ((1 + discount_rate) ** year) of one entry, base being 1 + discount_rate
pv_of(projection, base) == Div(projection.FCF, Pow(base, projection.Year))

\* the for loop over self.projections; it divides by zero at the first entry,
\* if at all, since base ** year is 0 only for base = 0
discount_all(obj, base) ==
    IF Len(obj.projections) > 0 /\ IsZero(base)
    THEN Raise(obj, "ZeroDivisionError", DivMsg)
    ELSE Return(obj, [i \in 1..Len(obj.projections) |-> pv_of(obj.projections[i], base)])

calculate_pv(obj, discount_rate) == discount_all(obj, Add(Num(1), discount_rate))

(***************************************************************************)
(* DCFValuation.calculate_enterprise_value, statement by statement: each   *)
(* operator takes the outcome of the statements before it.                 *)
(***************************************************************************)
\* mutant: the terminal value is added undiscounted
ev_dict_undiscounted(obj, pv_fcf_sum, terminal_value, pv_terminal_value) ==
    Return(obj, [PVofProjectedFCFs |-> pv_fcf_sum,
                 TerminalValue     |-> terminal_value,
                 PVofTerminalValue |-> pv_terminal_value,
                 EnterpriseValue   |-> Add(pv_fcf_sum, terminal_value)])

\* the returned dictionary
ev_dict(obj, pv_fcf_sum, terminal_value, pv_terminal_value) ==
    Return(obj, [PVofProjectedFCFs |-> pv_fcf_sum,
                 TerminalValue     |-> terminal_value,
                 PVofTerminalValue |-> pv_terminal_value,
                 EnterpriseValue   |-> Add(pv_fcf_sum, pv_terminal_value)])

\* pv_terminal_value = terminal_value / ((1 + wacc) ** self.fcf_growth_years)
ev_discount_terminal(pv_fcf_sum, tv, discount) ==
    IF tv.raised # "None" THEN tv
    ELSE IF IsZero(discount) THEN Raise(tv.self, "ZeroDivisionError", DivMsg)
    ELSE ev_dict(tv.self, pv_fcf_sum, tv.value, Div(tv.value, discount))

\* pv_fcf_sum = sum(pv_fcfs); terminal_value = self.calculate_terminal_value(...)
ev_terminal(pv, terminal_growth_rate, wacc) ==
    IF pv.raised # "None" THEN pv
    ELSE ev_discount_terminal(
             Sum(pv.value),
             calculate_terminal_value(pv.self, terminal_growth_rate, wacc),
             Pow(Add(Num(1), wacc), pv.self.fcf_growth_years))

\* pv_fcfs = self.calculate_pv(wacc)
ev_pv(p, terminal_growth_rate, wacc) ==
    IF p.raised # "None" THEN p
    ELSE ev_terminal(calculate_pv(p.self, wacc), terminal_growth_rate, wacc)

calculate_enterprise_value(obj, growth_rates, terminal_growth_rate, wacc) ==
    ev_pv(project_fcf(obj, growth_rates), terminal_growth_rate, wacc)

(***************************************************************************)
(* DCFValuation.calculate_equity_value                                     *)
(***************************************************************************)
equity_dict(obj, equity_value, shares_outstanding) ==
    IF IsZero(shares_outstanding)
    THEN Raise(obj, "ZeroDivisionError", DivMsg)
    ELSE Return(obj, [EquityValue   |-> equity_value,
                      PricePerShare |-> Div(equity_value, shares_outstanding)])

calculate_equity_value(obj, enterprise_value, net_debt, shares_outstanding) ==
    equity_dict(obj, Sub(enterprise_value, net_debt), shares_outstanding)

(***************************************************************************)
(* DCFValuation.run_valuation (the report it prints is not state)          *)
(***************************************************************************)
rv_dict(ev, eq) ==
    IF eq.raised # "None" THEN eq
    ELSE Return(eq.self, [enterprise_value |-> ev.value.EnterpriseValue,
                          equity_value     |-> eq.value.EquityValue,
                          price_per_share  |-> eq.value.PricePerShare])

rv_equity(ev, net_debt, shares) ==
    IF ev.raised # "None" THEN ev
    ELSE rv_dict(ev, calculate_equity_value(ev.self, ev.value.EnterpriseValue,
                                            net_debt, shares))

run_valuation(obj, fcf_growth, terminal_growth, wacc, net_debt, shares) ==
    rv_equity(calculate_enterprise_value(obj, fcf_growth, terminal_growth, wacc),
              net_debt, shares)

(***************************************************************************)
(* Inputs.                                                                 *)
(***************************************************************************)
SeqsUpTo(S, n) == UNION {[1..k -> S] : k \in 0..n}

Bases == {Num(100)}

Years == 0..MaxYears

GrowthRates == {Frac(-1, 2), Frac(1, 10)}

\* every sequence some engine accepts, and some that are too long for all of them
GrowthChoices ==
    SeqsUpTo(GrowthRates, MaxYears) \cup {[i \in 1..(MaxYears + 1) |-> r] : r \in GrowthRates}

TerminalRates == {Num(0), Frac(1, 10)}

DiscountRates == {Num(-1), Frac(1, 20), Frac(1, 10)}

Waccs == {Frac(1, 20), Frac(1, 10)}

EnterpriseValues == {Frac(5001, 2)}

NetDebts == {Num(-50), Num(300)}

Shares == {Num(-10), Num(0), Num(10)}

RunNetDebts == {Num(300)}

RunShares == {Num(0), Num(10)}

(***************************************************************************)
(* The state machine: one action per method of the object.                 *)
(***************************************************************************)
NoCall == [op |-> "__init__", args |-> <<>>, raised |-> "None", msg |-> "", value |-> <<>>]

NoHist == [projected |-> FALSE, rerun |-> FALSE, value |-> <<>>]

Init ==
    /\ \E b \in Bases, n \in Years : self = DCFValuation("Acme", b, n)
    /\ ret = NoCall
    /\ hist = NoHist

\* the effect of a call whose outcome is r
Called(op, args, r) ==
    /\ self' = r.self
    /\ ret' = [op |-> op, args |-> args, raised |-> r.raised, msg |-> r.msg, value |-> r.value]

\* the history of successful project_fcf calls, p being the outcome of one
Projected(p) ==
    hist' = IF p.raised = "None"
            THEN [projected |-> TRUE, rerun |-> hist.projected, value |-> p.value]
            ELSE hist

DoProjectFcf(growth_rates) ==
    LET r == project_fcf(self, growth_rates)
    IN  /\ Called("project_fcf", [growth_rates |-> growth_rates], r)
        /\ Projected(r)

DoCalculateTerminalValue(g, wacc) ==
    /\ Called("calculate_terminal_value", [terminal_growth_rate |-> g, wacc |-> wacc],
              calculate_terminal_value(self, g, wacc))
    /\ UNCHANGED hist

DoCalculatePv(discount_rate) ==
    /\ Called("calculate_pv", [discount_rate |-> discount_rate],
              calculate_pv(self, discount_rate))
    /\ UNCHANGED hist

DoCalculateEnterpriseValue(growth_rates, g, wacc) ==
    LET args == [growth_rates |-> growth_rates, terminal_growth_rate |-> g, wacc |-> wacc]
        r    == calculate_enterprise_value(self, growth_rates, g, wacc)
    IN  /\ Called("calculate_enterprise_value", args, r)
        /\ Projected(project_fcf(self, growth_rates))

DoCalculateEquityValue(ev, net_debt, shares) ==
    /\ Called("calculate_equity_value",
              [enterprise_value |-> ev, net_debt |-> net_debt, shares_outstanding |-> shares],
              calculate_equity_value(self, ev, net_debt, shares))
    /\ UNCHANGED hist

DoRunValuation(growth_rates, g, wacc, net_debt, shares) ==
    /\ Called("run_valuation",
              [fcf_growth |-> growth_rates, terminal_growth |-> g, wacc |-> wacc,
               net_debt |-> net_debt, shares |-> shares],
              run_valuation(self, growth_rates, g, wacc, net_debt, shares))
    /\ Projected(project_fcf(self, growth_rates))

ProjectFcf == \E gr \in GrowthChoices : DoProjectFcf(gr)

CalculateTerminalValue ==
    \E g \in TerminalRates, wacc \in Waccs : DoCalculateTerminalValue(g, wacc)

CalculatePv == \E r \in DiscountRates : DoCalculatePv(r)

CalculateEnterpriseValue ==
    \E gr \in GrowthChoices, g \in TerminalRates, wacc \in Waccs :
        DoCalculateEnterpriseValue(gr, g, wacc)

CalculateEquityValue ==
    \E ev \in EnterpriseValues, nd \in NetDebts, sh \in Shares :
        DoCalculateEquityValue(ev, nd, sh)

RunValuation ==
    \E gr \in GrowthChoices, g \in TerminalRates, wacc \in Waccs,
       nd \in RunNetDebts, sh \in RunShares :
        DoRunValuation(gr, g, wacc, nd, sh)

Next ==
    \/ ProjectFcf
    \/ CalculateTerminalValue
    \/ CalculatePv
    \/ CalculateEnterpriseValue
    \/ CalculateEquityValue
    \/ RunValuation

Spec == Init /\ [][Next]_vars

(***************************************************************************)
(* The example of the __main__ block: Microsoft, with inputs around the    *)
(* example's.                                                              *)
(***************************************************************************)
ExampleBase == 45000

ExampleYears == 5

ExampleGrowth == <<Frac(8, 100), Frac(8, 100), Frac(7, 100), Frac(7, 100), Frac(6, 100)>>

ExampleTerminalGrowth == Frac(25, 1000)

ExampleWacc == Frac(7, 100)

\* the example's rates, each year's kept or replaced by no growth; one list too
\* short and one too long
ExampleGrowthChoices ==
    {[y \in 1..ExampleYears |-> IF y \in keep THEN ExampleGrowth[y] ELSE Num(0)] :
        keep \in SUBSET (1..ExampleYears)}
    \cup {SubSeq(ExampleGrowth, 1, ExampleYears - 1), Append(ExampleGrowth, Num(0))}

ExampleTerminalRates == {ExampleTerminalGrowth, Frac(3, 100)}

ExampleWaccs == {ExampleWacc, ExampleTerminalGrowth}

InitExample ==
    /\ self = DCFValuation("Microsoft", Num(ExampleBase), ExampleYears)
    /\ ret = NoCall
    /\ hist = NoHist

ProjectFcfExample == \E gr \in ExampleGrowthChoices : DoProjectFcf(gr)

CalculateTerminalValueExample ==
    \E g \in ExampleTerminalRates, wacc \in ExampleWaccs : DoCalculateTerminalValue(g, wacc)

NextExample ==
    \/ ProjectFcfExample
    \/ CalculateTerminalValueExample

SpecExample == InitExample /\ [][NextExample]_vars

(***************************************************************************)
(* The specification's error taxonomy, in the code's exceptions: both are  *)
(* ValueError in the code and differ by their message.                     *)
(***************************************************************************)
StateError(r) == r.raised = "ValueError" /\ r.msg = RunFirstMsg

InvalidInputError(r) == r.raised = "ValueError" /\ r.msg # RunFirstMsg

Returned(r) == r.raised = "None"

\* x <= y: the whole part of y - x is not negative
Leq(x, y) == Sub(y, x).w >= 0

\* floor(x + 1/2): x rounded to the nearest integer
Round(x) == Add(x, Frac(1, 2)).w

(***************************************************************************)
(* Claims.                                                                 *)
(***************************************************************************)

\* C1: calculate_terminal_value on an engine with stored projections fails with
\* an InvalidInputError whenever wacc <= terminal_growth_rate.
C1_TerminalValueRejectsLowWacc ==
    (/\ ret.op = "calculate_terminal_value"
     /\ self.projections # <<>>
     /\ Leq(ret.args.wacc, ret.args.terminal_growth_rate))
    => InvalidInputError(ret)

\* C2: calculate_pv on an engine whose stored projections are empty fails with
\* a StateError, whatever the discount rate (stated for the engines of at least
\* one projection year).
C2_PvBeforeProjectionFails ==
    (ret.op = "calculate_pv" /\ self.projections = <<>> /\ self.fcf_growth_years >= 1)
    => StateError(ret)

\* C3: calculate_equity_value fails with an InvalidInputError for every
\* shares_outstanding <= 0.
C3_EquityRejectsNonPositiveShares ==
    (ret.op = "calculate_equity_value" /\ Leq(ret.args.shares_outstanding, Num(0)))
    => InvalidInputError(ret)

\* a step that is a project_fcf or calculate_enterprise_value call with a list of
\* the wrong length raises the length error and changes nothing of the object
C4_WrongLengthStep ==
    (/\ ret'.op \in {"project_fcf", "calculate_enterprise_value"}
     /\ Len(ret'.args.growth_rates) # self.fcf_growth_years)
    => (InvalidInputError(ret') /\ self' = self)

\* C4: a project_fcf or calculate_enterprise_value call whose growth_rates has
\* not fcf_growth_years entries fails with an InvalidInputError and leaves the
\* object, its stored projections included, as it was before the call.
C4_WrongLengthLeavesState == [][C4_WrongLengthStep]_vars

C4_Witness ==
    /\ ret.op = "calculate_enterprise_value"
    /\ Len(ret.args.growth_rates) # self.fcf_growth_years
    /\ InvalidInputError(ret)
    /\ self.projections # <<>>

\* C5: project_fcf with fcf_growth_years = N growth rates returns N entries,
\* years 1..N in order, each with its year's growth rate, and each FCF the
\* previous entry's FCF (fcf_base for year 1) times 1 + that year's rate.
C5_Chained ==
    (ret.op = "project_fcf" /\ Len(ret.args.growth_rates) = self.fcf_growth_years)
    => /\ Returned(ret)
       /\ Len(ret.value) = self.fcf_growth_years
       /\ \A y \in 1..self.fcf_growth_years :
            /\ ret.value[y].Year = y
            /\ ret.value[y].GrowthRate = ret.args.growth_rates[y]
            /\ ret.value[y].FCF =
                  Mul(IF y = 1 THEN self.fcf_base ELSE ret.value[y - 1].FCF,
                      Add(Num(1), ret.args.growth_rates[y]))

C5_Witness ==
    /\ ret.op = "project_fcf"
    /\ Returned(ret)
    /\ Len(ret.value) >= 2
    /\ ret.args.growth_rates[1] # ret.args.growth_rates[2]

\* C6: in every reachable state the stored projections are empty if no
\* projection has succeeded, and otherwise are the fcf_growth_years entries the
\* last successful projection returned: a re-run overwrites, it never appends.
C6_ProjectionsAreLastRun ==
    /\ ~hist.projected => self.projections = <<>>
    /\ hist.projected =>
          /\ Len(self.projections) = self.fcf_growth_years
          /\ self.projections = hist.value

C6_Witness ==
    /\ hist.rerun
    /\ self.fcf_growth_years >= 2
    /\ ret.op = "calculate_pv"
    /\ Len(self.projections) = self.fcf_growth_years

\* C7: calculate_terminal_value on an engine whose stored projections are empty
\* fails with a StateError, whatever its arguments.
C7_TerminalValueBeforeProjectionFails ==
    (ret.op = "calculate_terminal_value" /\ self.projections = <<>>) => StateError(ret)

C7_Witness ==
    /\ ret.op = "calculate_terminal_value"
    /\ self.projections = <<>>
    /\ self.fcf_growth_years >= 1
    /\ StateError(ret)

\* the same call on a newly constructed engine of the same fcf_base and
\* fcf_growth_years
C8_FromNew(obj, args) ==
    calculate_enterprise_value(
        DCFValuation(obj.company_name, obj.fcf_base, obj.fcf_growth_years),
        args.growth_rates, args.terminal_growth_rate, args.wacc)

C8_Step ==
    (ret'.op = "calculate_enterprise_value" /\ Returned(ret'))
    => /\ Returned(C8_FromNew(self', ret'.args))
       /\ ret'.value = C8_FromNew(self', ret'.args).value
       /\ self' = C8_FromNew(self', ret'.args).self
       /\ (ret.op = "calculate_enterprise_value" /\ Returned(ret) /\ ret.args = ret'.args)
             => (ret'.value = ret.value /\ self' = self)

\* C8: what calculate_enterprise_value returns and stores depends only on its
\* arguments, fcf_base and fcf_growth_years: it is what a newly constructed
\* engine returns and stores, and the same call made again right away returns
\* and stores the same.
C8_Deterministic == [][C8_Step]_vars

C8_Witness ==
    /\ ret.op = "calculate_enterprise_value"
    /\ Returned(ret)
    /\ hist.rerun
    /\ self.fcf_growth_years >= 2

\* the sum over the years 1..y of FCF_y / (1 + wacc)^y
RECURSIVE C9_SumOfPVs(_, _, _)
C9_SumOfPVs(projections, wacc, y) ==
    IF y = 0 THEN Num(0)
    ELSE Add(C9_SumOfPVs(projections, wacc, y - 1),
             Div(projections[y].FCF, Pow(Add(Num(1), wacc), y)))

\* C9: the result of calculate_enterprise_value has EnterpriseValue = PV of
\* projected FCFs + PV of terminal value, the first being the sum over the
\* years y of FCF_y / (1 + wacc)^y for the flows just projected and the second
\* the returned terminal value / (1 + wacc)^fcf_growth_years.
C9_SumCheck ==
    (ret.op = "calculate_enterprise_value" /\ Returned(ret))
    => /\ ret.value.PVofProjectedFCFs =
             C9_SumOfPVs(self.projections, ret.args.wacc, self.fcf_growth_years)
       /\ ret.value.PVofTerminalValue =
             Div(ret.value.TerminalValue,
                 Pow(Add(Num(1), ret.args.wacc), self.fcf_growth_years))
       /\ ret.value.EnterpriseValue =
             Add(C9_SumOfPVs(self.projections, ret.args.wacc, self.fcf_growth_years),
                 Div(ret.value.TerminalValue,
                     Pow(Add(Num(1), ret.args.wacc), self.fcf_growth_years)))

C9_Witness ==
    /\ ret.op = "calculate_enterprise_value"
    /\ Returned(ret)
    /\ self.fcf_growth_years >= 2
    /\ ~IsZero(ret.value.PVofTerminalValue)

\* the last call projected the example's growth rates
C10_ProjectedExample ==
    ret.op = "project_fcf" /\ Returned(ret) /\ ret.args.growth_rates = ExampleGrowth

\* the last call computed the example's terminal value from the example's projection
C10_TerminalExample ==
    /\ ret.op = "calculate_terminal_value"
    /\ Returned(ret)
    /\ ret.args.terminal_growth_rate = ExampleTerminalGrowth
    /\ ret.args.wacc = ExampleWacc
    /\ [y \in 1..Len(self.projections) |-> self.projections[y].GrowthRate] = ExampleGrowth

\* C10: in the example, the year-5 FCF is 63,699.1 to one decimal and the
\* terminal value is 1,450,924 to the unit.
C10_ExampleFigures ==
    /\ C10_ProjectedExample =>
          Round(Mul(Num(10), ret.value[ExampleYears].FCF)) = 636991
    /\ C10_TerminalExample => Round(ret.value) = 1450924

C10_Witness == C10_TerminalExample /\ self.fcf_base = Num(ExampleBase)

\* C10 as the specification states it: the year-5 FCF is 61,912.5 to one
\* decimal and the terminal value is 1,409,856 to the unit.
C10_StatedFigures ==
    /\ C10_ProjectedExample =>
          Round(Mul(Num(10), ret.value[ExampleYears].FCF)) = 619125
    /\ C10_TerminalExample => Round(ret.value) = 1409856

====
